---- MODULE Spec2Model ----
(***************************************************************************)
(* Model of locust_extensions/reporter.py: the Reporter that buffers       *)
(* request samples, flushes them to Postgres from a background greenlet    *)
(* and closes the run at shutdown.                                         *)
(*                                                                         *)
(* Scheduling is cooperative (gevent): a greenlet runs until it reaches a  *)
(* yield point.  The yield points of the code are gevent.sleep, the join   *)
(* in quitting and every cursor.execute / executemany (psycogreen makes    *)
(* them wait in the hub).  Each action below is the code between two       *)
(* yield points.                                                           *)
(*                                                                         *)
(* Time is counted in half milliseconds so that int(timestamp * 1000)      *)
(* has something to round.                                                 *)
(***************************************************************************)
EXTENDS Integers, Sequences, FiniteSets, TLC

\* ------------------------------------------------------------- bounds
MaxSamples == 2          \* request notifications delivered in a run
MaxQuit == 2             \* quitting notifications delivered in a run
MaxNotifications == 3    \* notifications of both kinds delivered in a run

\* ------------------------------------------------------------- constants
NoGreenletId == -1

None == <<>>
Some(x) == <<x>>

Greenlets == {0, 1}               \* 0: a raw greenlet without minimal_ident
Quitters == 1..MaxQuit            \* the invocations of the quitting handler
AtExitHook == 0                   \* the invocation of exit by atexit
Callers == {AtExitHook} \cup Quitters

ArgvSets == SUBSET {"--slave", "--master"}
EnvRunIds == {"unset", "3"}       \* os.environ LOCUST_RUN_ID

\* arguments of the notifications as locust delivers them: a length >= 0, an
\* exception object
ResponseLengths == {150}
ExceptionArgs == {Some("Timeout")}

\* arguments of any caller of the handlers: lengths around the test of line
\* 137, exceptions around the test of line 142
AnyResponseLengths == {-1, 0, 150}
AnyExceptionArgs == {None, Some(""), Some("Timeout")}

VARIABLES
    argv,          \* sys.argv, as the set of the markers it holds
    env_run_id,    \* os.environ["LOCUST_RUN_ID"], "unset" when missing
    main,          \* position of the constructor
    conn,          \* self._conn: "none", "open", "closed"
    cur,           \* self._cur: "none", "open", "closed"
    samples,       \* self._samples
    finished,      \* self._finished
    background,    \* self._background, the greenlet running _run
    samples_buffer,\* the batch _run has handed to write_samples_to_db
    run_id,        \* self._run_id, in half milliseconds
    handlers,      \* request_success, request_failure, quitting registered
    atexit_hook,   \* atexit holds self.exit
    sent,          \* requests each greenlet has completed
    written,       \* the batches passed to write_samples_to_db, in order
    stored,        \* rows of table request
    executed,      \* execute calls issued, by statement
    logged,        \* kinds of logging.error messages emitted
    reports,       \* Report URLs logged by log_stop_test_run
    pc,            \* position of each invocation of quitting / exit
    end_time,      \* end_time of each invocation of log_stop_test_run in progress
    exited         \* the interpreter has run its exit hooks and is gone

vars == <<argv, env_run_id, main, conn, cur, samples, finished,
          background, samples_buffer, run_id, handlers, atexit_hook, sent,
          written, stored, executed, logged, reports, pc, end_time, exited>>

\* ------------------------------------------------------------- helpers
is_slave == "--slave" \in argv
is_master == "--master" \in argv

\* datetime.now(timezone.utc), in half milliseconds: what a reading of the
\* wall clock can give, here 1.001 s or 1.002 s after the epoch.  Each
\* reading takes any of them: nothing orders or spaces the readings of a run.
Clock == {2002, 2004}

\* dateutil parser.parse of LOCUST_RUN_ID, in half milliseconds
parse(s) == CASE s = "3" -> 6000
              [] s = "4" -> 8000

\* ---- binary floating point (IEEE 754 double), as line 184 computes in it.
\* A natural is a sequence of digits in base LimbBase, most significant
\* first; a double is m * 2^e with m of MantissaBits binary digits, or zero
\* when m is empty.
MantissaBits == 53

\* binary digits of one digit of a natural
LimbBits == 15

LimbBase == 2 ^ LimbBits

\* binary digits the division appends to its dividend before it rounds
DivisionBits == 66

\* timedelta(seconds=1) in the half milliseconds of the model
HalfMsPerSecond == 2000

\* the factor of line 184
MsPerSecond == 1000

Zeros(n) == [i \in 1..n |-> 0]

Front(a) == SubSeq(a, 1, Len(a) - 1)

RECURSIVE Strip(_)
Strip(a) == IF a # <<>> /\ Head(a) = 0 THEN Strip(Tail(a)) ELSE a

\* the digits of an integer n >= 0
RECURSIVE Limbs(_)
Limbs(n) == IF n = 0 THEN <<>> ELSE Append(Limbs(n \div LimbBase), n % LimbBase)

\* the integer of digits a, for a below 2^31
RECURSIVE LimbsToInt(_)
LimbsToInt(a) ==
    IF a = <<>> THEN 0 ELSE LimbBase * LimbsToInt(Front(a)) + a[Len(a)]

\* a * c + carry, for small naturals c and carry
RECURSIVE MulAdd(_, _, _)
MulAdd(a, c, carry) ==
    IF a = <<>>
    THEN Limbs(carry)
    ELSE LET p == a[Len(a)] * c + carry
         IN  Append(MulAdd(Front(a), c, p \div LimbBase), p % LimbBase)

\* a + b + carry, for a and b of one length
RECURSIVE AddSameLen(_, _, _)
AddSameLen(a, b, carry) ==
    IF a = <<>>
    THEN Limbs(carry)
    ELSE LET p == a[Len(a)] + b[Len(b)] + carry
         IN  Append(AddSameLen(Front(a), Front(b), p \div LimbBase), p % LimbBase)

\* quotient q and remainder r of (the digits before rest) \o rest by a small
\* d, given the quotient and the remainder of the digits before rest
RECURSIVE LongDiv(_, _, _, _)
LongDiv(rest, d, q, r) ==
    IF rest = <<>>
    THEN [q |-> q, r |-> r]
    ELSE LET part == r * LimbBase + Head(rest)
         IN  LongDiv(Tail(rest), d, Append(q, part \div d), part % d)

\* the number of binary digits of a
BitLength(a) ==
    LET b == Strip(a)
    IN  IF b = <<>>
        THEN 0
        ELSE LimbBits * (Len(b) - 1)
             + CHOOSE k \in 1..LimbBits : 2 ^ (k - 1) <= b[1] /\ b[1] < 2 ^ k

\* a * 2^k
ShiftLeft(a, k) == MulAdd(a, 2 ^ (k % LimbBits), 0) \o Zeros(k \div LimbBits)

\* q = a \div 2^k, and whether a binary digit 1 was dropped
ShiftRight(a, k) ==
    LET whole == k \div LimbBits
        high == IF whole >= Len(a) THEN <<>> ELSE SubSeq(a, 1, Len(a) - whole)
        low == IF whole >= Len(a) THEN a ELSE SubSeq(a, Len(a) - whole + 1, Len(a))
        qr == LongDiv(high, 2 ^ (k % LimbBits), <<>>, 0)
    IN  [q |-> qr.q, dropped |-> qr.r # 0 \/ \E i \in DOMAIN low : low[i] # 0]

\* the double nearest to a * 2^e (a little more when sticky), ties to even
RoundToDouble(a, e, sticky) ==
    LET n == BitLength(a)
    IN  IF n = 0
        THEN [m |-> <<>>, e |-> 0]
        ELSE IF n <= MantissaBits
        THEN [m |-> Strip(ShiftLeft(a, MantissaBits - n)), e |-> e - (MantissaBits - n)]
        ELSE LET kept == ShiftRight(a, n - MantissaBits)
                 guard == ShiftRight(a, n - MantissaBits - 1)
                 half == guard.q[Len(guard.q)] % 2 = 1
                 more == sticky \/ guard.dropped
                 odd == kept.q[Len(kept.q)] % 2 = 1
                 up == half /\ (more \/ odd)
                 m == IF up THEN MulAdd(kept.q, 1, 1) ELSE kept.q
             IN  IF BitLength(m) > MantissaBits
                 THEN [m |-> Strip(ShiftRight(m, 1).q), e |-> e + n - MantissaBits + 1]
                 ELSE [m |-> Strip(m), e |-> e + n - MantissaBits]

\* n / d in true division, for naturals n and d
FloatDiv(n, d) ==
    LET qr == LongDiv(ShiftLeft(Limbs(n), DivisionBits), d, <<>>, 0)
    IN  RoundToDouble(qr.q, 0 - DivisionBits, qr.r # 0)

\* x + 1, for a double x below 2^(MantissaBits - 1)
FloatAddOne(x) ==
    IF x.m = <<>>
    THEN RoundToDouble(<<1>>, 0, FALSE)
    ELSE LET one == Strip(ShiftLeft(<<1>>, 0 - x.e))
             n == IF Len(one) > Len(x.m) THEN Len(one) ELSE Len(x.m)
         IN  RoundToDouble(AddSameLen(Zeros(n - Len(x.m)) \o x.m,
                                      Zeros(n - Len(one)) \o one, 0),
                           x.e, FALSE)

\* x * c, for a double x and a small natural c
FloatMul(x, c) == RoundToDouble(MulAdd(x.m, c, 0), x.e, FALSE)

\* int(x), for a double x with 0 <= x < 2^31
FloatToInt(x) ==
    IF x.m = <<>> THEN 0 ELSE LimbsToInt(Strip(ShiftRight(x.m, 0 - x.e).q))

\* x.timestamp() of an aware datetime x, given in half milliseconds since
\* the epoch: (x - epoch) / timedelta(seconds=1)
timestamp(t) == FloatDiv(t, HalfMsPerSecond)

\* line 184: int(self._run_id.timestamp()*1000)
timestamp_ms(t) == FloatToInt(FloatMul(timestamp(t), MsPerSecond))

\* line 184: int((end_time.timestamp()+1)*1000)
timestamp_plus1_ms(t) ==
    FloatToInt(FloatMul(FloatAddOne(timestamp(t)), MsPerSecond))

\* the instants a run can hold: the clock's readings and the run ids parsed
Instants ==
    Clock \cup {parse(s) : s \in EnvRunIds \ {"unset"}}

\* line 184 on these instants
from_ms == [t \in Instants |-> timestamp_ms(t)]
to_ms == [t \in Instants |-> timestamp_plus1_ms(t)]

\* line 66: self._testplan, the constructor's argument
Testplan == "plan"

\* truth value of the exception argument
truthy(e) == e # None /\ e # Some("")

\* repr() of the exception argument
repr(e) == IF e = None THEN "None" ELSE "'" \o e[1] \o "'"

RECURSIVE Concat(_)
Concat(ss) == IF ss = <<>> THEN <<>> ELSE Head(ss) \o Concat(Tail(ss))

TotalSent == sent[0] + sent[1]

\* the request and quitting notifications delivered so far
Delivered == TotalSent + Cardinality({q \in Quitters : pc[q] # "idle"})

Init ==
    /\ argv \in ArgvSets
    /\ env_run_id \in EnvRunIds
    /\ main = "new"
    /\ conn = "none"
    /\ cur = "none"
    /\ samples = <<>>
    /\ finished = FALSE
    /\ background = "none"
    /\ samples_buffer = <<>>
    /\ run_id = 0
    /\ handlers = FALSE
    /\ atexit_hook = FALSE
    /\ sent = [g \in Greenlets |-> 0]
    /\ written = <<>>
    /\ stored = <<>>
    /\ executed = [s \in {"start_insert", "start_event", "stop_update", "stop_event"} |-> 0]
    /\ logged = {}
    /\ reports = {}
    /\ pc = [c \in Callers |-> "idle"]
    /\ end_time = [c \in Callers |-> 0]
    /\ exited = FALSE


\* ------------------------------------------------------------- constructor
\* only a slave takes the run id from the environment
reads_env_run_id_slave_only == is_slave

\* line 71: the run id comes from the environment
reads_env_run_id == is_slave \/ is_master

\* the flusher is spawned before the connection is made
background_spawned_before_connect == "start"

\* lines 57-70: self._background when psycopg2.connect raises; the spawn of
\* line 70 comes after the connect
background_at_connect_error == "none"

\* log_start_testrun catches the error as log_stop_test_run does
start_error_caught_like_stop == TRUE

\* lines 155-169: log_start_testrun has no try, its errors are not caught
start_error_caught == FALSE

\* lines 84-87: the three handlers and the exit hook are registered
register ==
    /\ handlers' = TRUE
    /\ atexit_hook' = TRUE
    /\ main' = "constructed"

\* lines 55-82, up to the first execute of log_start_testrun.
\* ok: psycopg2.connect succeeds; t: what the clock gives on line 76.
init_connect(ok, t) ==
    /\ main = "new"
    /\ ~exited
    /\ IF ~ok
       THEN /\ logged' = logged \cup {"connect"}
            /\ main' = "raised"
            /\ background' = background_at_connect_error
            /\ UNCHANGED <<conn, cur, samples, finished,
                           run_id, handlers, atexit_hook, executed>>
       ELSE /\ conn' = "open"
            /\ cur' = "open"
            /\ samples' = <<>>
            /\ finished' = FALSE
            /\ background' = "start"
            /\ UNCHANGED logged
            /\ IF reads_env_run_id /\ env_run_id = "unset"
               THEN \* os.environ[...] raises KeyError
                    /\ main' = "raised"
                    /\ UNCHANGED <<run_id, handlers, atexit_hook, executed>>
               ELSE /\ run_id' = IF reads_env_run_id THEN parse(env_run_id) ELSE t
                    /\ IF ~is_slave
                       THEN /\ executed' = [executed EXCEPT !["start_insert"] = @ + 1]
                            /\ main' = "start_insert"
                            /\ UNCHANGED <<handlers, atexit_hook>>
                       ELSE /\ register
                            /\ UNCHANGED executed
    /\ UNCHANGED <<argv, env_run_id, samples_buffer, sent, written, stored,
                   reports, pc, end_time, exited>>

\* lines 161-166: INSERT INTO testrun returns; an error is not caught
start_insert_return(ok) ==
    /\ main = "start_insert"
    /\ ~exited
    /\ IF ok
       THEN /\ executed' = [executed EXCEPT !["start_event"] = @ + 1]
            /\ main' = "start_event"
            /\ UNCHANGED <<handlers, atexit_hook, logged>>
       ELSE /\ IF start_error_caught
               THEN register /\ logged' = logged \cup {"start"}
               ELSE main' = "raised" /\ UNCHANGED <<handlers, atexit_hook, logged>>
            /\ UNCHANGED executed
    /\ UNCHANGED <<argv, env_run_id, conn, cur, samples, finished,
                   background, samples_buffer, run_id,
                   sent, written, stored, reports, pc, end_time, exited>>

\* lines 166-169 and 84-87: INSERT INTO events returns
start_event_return(ok) ==
    /\ main = "start_event"
    /\ ~exited
    /\ IF ok
       THEN register /\ UNCHANGED logged
       ELSE IF start_error_caught
            THEN register /\ logged' = logged \cup {"start"}
            ELSE main' = "raised" /\ UNCHANGED <<handlers, atexit_hook, logged>>
    /\ UNCHANGED <<argv, env_run_id, conn, cur, samples, finished,
                   background, samples_buffer, run_id, sent, written, stored,
                   executed, reports, pc, end_time, exited>>

\* ------------------------------------------------------------- flusher
\* the drained list stays installed
fresh_samples_not_reset == samples

\* line 95: the list installed in place of the drained one
fresh_samples == <<>>

\* the list is read before its last sample was appended
drained_samples_without_last == SubSeq(samples, 1, Len(samples) - 1)

\* line 94: the list handed to write_samples_to_db
drained_samples == samples

\* the error of executemany escapes write_samples_to_db
write_error_not_caught == FALSE

\* line 109: psycopg2.Error is caught in write_samples_to_db
write_error_caught == TRUE

\* lines 109-110 and 100: executemany raised psycopg2.Error
write_failed ==
    /\ samples_buffer' = <<>>
    /\ IF write_error_caught
       THEN logged' = logged \cup {"write"} /\ background' = "sleep"
       ELSE background' = "dead" /\ UNCHANGED logged

\* the write is called on every pass
has_samples_always == TRUE

\* line 91: if self._samples
has_samples == samples # <<>>

\* the loop is left on any pass that finds the buffer empty
loop_breaks_when_empty == TRUE

\* lines 98-99: if self._finished: break
loop_breaks == finished

\* lines 90-100: one pass of the loop of _run, up to its yield point
run_iteration ==
    /\ background \in {"start", "sleep"}
    /\ ~exited
    /\ IF has_samples
       THEN /\ written' = Append(written, drained_samples)
            /\ samples' = fresh_samples
            /\ IF cur = "open"
               THEN /\ samples_buffer' = drained_samples
                    /\ background' = "write"
                    /\ UNCHANGED logged
               ELSE \* a closed cursor raises InterfaceError at once
                    write_failed
       ELSE /\ background' = IF loop_breaks THEN "dead" ELSE "sleep"
            /\ UNCHANGED <<samples, samples_buffer, written, logged>>
    /\ UNCHANGED <<argv, env_run_id, main, conn, cur, finished, run_id,
                   handlers, atexit_hook, sent, stored, executed, reports, pc,
                   end_time, exited>>

\* lines 102-110 and 100: executemany returns or raises psycopg2.Error
write_return(ok) ==
    /\ background = "write"
    /\ ~exited
    /\ IF ok
       THEN /\ stored' = stored \o samples_buffer
            /\ samples_buffer' = <<>>
            /\ background' = "sleep"
            /\ UNCHANGED logged
       ELSE /\ write_failed
            /\ UNCHANGED stored
    /\ UNCHANGED <<argv, env_run_id, main, conn, cur, samples, finished,
                   run_id, handlers, atexit_hook, sent, written, executed,
                   reports, pc, end_time, exited>>

\* ------------------------------------------------------------- handlers
\* lines 119-123
greenlet_id(g) == IF g > 0 THEN g ELSE NoGreenletId

\* the length is stored whatever its sign
response_length_field_never_null(response_length) == Some(response_length)

\* lines 137-140
response_length_field(response_length) ==
    IF response_length >= 0 THEN Some(response_length) ELSE None

\* lines 142-145
exception_field(exception) ==
    IF truthy(exception) THEN Some(repr(exception)) ELSE None

\* the new sample replaces the buffer
append_replacing(list, sample) == <<sample>>

\* line 147: self._samples.append(sample)
append(list, sample) == Append(list, sample)

\* lines 118-147; the request's name is its number in its greenlet
log_request(g, response_length, success, exception) ==
    /\ handlers
    /\ ~exited
    /\ TotalSent < MaxSamples
    /\ Delivered < MaxNotifications
    /\ samples' = append(samples,
            [run_id |-> run_id,
             greenlet_id |-> greenlet_id(g),
             name |-> sent[g] + 1,
             success |-> success,
             response_length |-> response_length_field(response_length),
             exception |-> exception_field(exception)])
    /\ sent' = [sent EXCEPT ![g] = @ + 1]
    /\ UNCHANGED <<argv, env_run_id, main, conn, cur, finished,
                   background, samples_buffer, run_id, handlers, atexit_hook,
                   written, stored, executed, logged, reports, pc, end_time,
                   exited>>

\* lines 149-150
request_success(g, response_length) == log_request(g, response_length, 1, None)

\* lines 152-153
request_failure(g, exception) == log_request(g, -1, 0, exception)


\* ------------------------------------------------------------- shutdown
\* quitting does not wait for the flusher
joined_without_waiting == TRUE

\* line 115: self._background.join() returns once the greenlet is dead
joined == background = "dead"

\* the error of the run-end statements escapes log_stop_test_run
stop_error_not_caught == FALSE

\* line 178: psycopg2.Error is caught in log_stop_test_run
stop_error_caught == TRUE

\* lines 190-192, and the return of exit; the interpreter is gone once its
\* exit hook has returned
close_and_return(c) ==
    /\ IF conn # "none"
       THEN cur' = "closed" /\ conn' = "closed"
       ELSE UNCHANGED <<conn, cur>>
    /\ pc' = [pc EXCEPT ![c] = "done"]
    /\ exited' = (c = AtExitHook)

\* lines 178-185 and 190-192: the statements of log_stop_test_run are over
\* (failed: one of them raised psycopg2.Error); the URL is logged and exit
\* goes on to close
stop_done(c, end, failed) ==
    /\ logged' = IF failed /\ stop_error_caught THEN logged \cup {"stop"} ELSE logged
    /\ IF failed /\ ~stop_error_caught
       THEN /\ pc' = [pc EXCEPT ![c] = "raised"]
            /\ exited' = (c = AtExitHook)
            /\ UNCHANGED <<conn, cur, reports>>
       ELSE /\ reports' = reports \cup
                    {[testplan |-> Testplan,
                      from |-> from_ms[run_id],
                      to |-> to_ms[end]]}
            /\ close_and_return(c)

\* lines 187-192 with 171-174: exit, up to its first yield point
exit(c) ==
    IF is_slave
    THEN /\ close_and_return(c)
         /\ UNCHANGED <<end_time, executed, logged, reports>>
    ELSE \E t \in Clock :
            /\ executed' = [executed EXCEPT !["stop_update"] = @ + 1]
            /\ IF cur = "open"
               THEN /\ end_time' = [end_time EXCEPT ![c] = t]
                    /\ pc' = [pc EXCEPT ![c] = "stop_update"]
                    /\ UNCHANGED <<conn, cur, logged, reports, exited>>
               ELSE \* a closed cursor raises InterfaceError at once
                    /\ stop_done(c, t, TRUE)
                    /\ UNCHANGED end_time

\* quitting leaves the finished flag as it was
finished_not_set == finished

\* line 113: self._finished = True
finished_set == TRUE

\* quitting leaves the exit hook registered
atexit_not_cleared == atexit_hook

\* line 114: atexit._clear() leaves no hook registered
atexit_cleared == FALSE

\* lines 112-116: the quitting handler, up to the join (or through it, when
\* the flusher is already dead).  Call q is the q-th call of the handler: it
\* can come while earlier calls wait in their join or in a run-end statement.
quitting(q) ==
    /\ handlers
    /\ ~exited
    /\ pc[q] = "idle"
    /\ \A p \in Quitters : p < q => pc[p] # "idle"
    /\ Delivered < MaxNotifications
    /\ finished' = finished_set
    /\ atexit_hook' = atexit_cleared
    /\ IF joined
       THEN exit(q)
       ELSE /\ pc' = [pc EXCEPT ![q] = "join"]
            /\ UNCHANGED <<conn, cur, executed, logged, reports,
                           end_time, exited>>
    /\ UNCHANGED <<argv, env_run_id, main, samples, background, samples_buffer,
                   run_id, handlers, sent, written, stored>>

\* lines 115-116: the join returns and quitting calls exit
join_return(q) ==
    /\ pc[q] = "join"
    /\ ~exited
    /\ joined
    /\ exit(q)
    /\ UNCHANGED <<argv, env_run_id, main, samples, finished, background,
                   samples_buffer, run_id, handlers, atexit_hook, sent,
                   written, stored>>

\* line 87: the interpreter exits and atexit calls exit
atexit_run ==
    /\ atexit_hook
    /\ ~exited
    /\ pc[AtExitHook] = "idle"
    /\ exit(AtExitHook)
    /\ UNCHANGED <<argv, env_run_id, main, samples, finished, background,
                   samples_buffer, run_id, handlers, atexit_hook, sent,
                   written, stored>>

\* lines 174-175: UPDATE testrun returns or raises
stop_update_return(c, ok) ==
    /\ pc[c] = "stop_update"
    /\ ~exited
    /\ IF ok
       THEN /\ executed' = [executed EXCEPT !["stop_event"] = @ + 1]
            /\ IF cur = "open"
               THEN /\ pc' = [pc EXCEPT ![c] = "stop_event"]
                    /\ UNCHANGED <<conn, cur, logged, reports, exited, end_time>>
               ELSE /\ stop_done(c, end_time[c], TRUE)
                    /\ end_time' = [end_time EXCEPT ![c] = 0]
       ELSE /\ stop_done(c, end_time[c], TRUE)
            /\ end_time' = [end_time EXCEPT ![c] = 0]
            /\ UNCHANGED executed
    /\ UNCHANGED <<argv, env_run_id, main, samples, finished,
                   background, samples_buffer, run_id, handlers, atexit_hook,
                   sent, written, stored>>

\* lines 175-185 and 190-192: INSERT INTO events returns or raises
stop_event_return(c, ok) ==
    /\ pc[c] = "stop_event"
    /\ ~exited
    /\ stop_done(c, end_time[c], ~ok)
    /\ end_time' = [end_time EXCEPT ![c] = 0]
    /\ UNCHANGED <<argv, env_run_id, main, samples, finished,
                   background, samples_buffer, run_id, handlers, atexit_hook,
                   sent, written, stored, executed>>

\* ------------------------------------------------------------- specification
Next ==
    \/ \E ok \in BOOLEAN, t \in Clock : init_connect(ok, t)
    \/ \E ok \in BOOLEAN : start_insert_return(ok)
    \/ \E ok \in BOOLEAN : start_event_return(ok)
    \/ run_iteration
    \/ \E ok \in BOOLEAN : write_return(ok)
    \/ \E g \in Greenlets, n \in ResponseLengths : request_success(g, n)
    \/ \E g \in Greenlets, e \in ExceptionArgs : request_failure(g, e)
    \/ \E q \in Quitters : quitting(q)
    \/ \E q \in Quitters : join_return(q)
    \/ atexit_run
    \/ \E c \in Callers, ok \in BOOLEAN : stop_update_return(c, ok)
    \/ \E c \in Callers, ok \in BOOLEAN : stop_event_return(c, ok)

Spec == Init /\ [][Next]_vars

\* A participant (--slave) whose handlers are called with any arguments.  No
\* line of _log_request reads the role; the participant has no run-start and
\* run-end statements, which leaves room for the arguments.
InitParticipant == Init /\ argv = {"--slave"}

NextAnyArgs ==
    \/ \E ok \in BOOLEAN, t \in Clock : init_connect(ok, t)
    \/ run_iteration
    \/ \E ok \in BOOLEAN : write_return(ok)
    \/ \E g \in Greenlets, n \in AnyResponseLengths : request_success(g, n)
    \/ \E g \in Greenlets, e \in AnyExceptionArgs : request_failure(g, e)
    \/ \E q \in Quitters : quitting(q)
    \/ \E q \in Quitters : join_return(q)
    \/ atexit_run

SpecAnyArgs == InitParticipant /\ [][NextAnyArgs]_vars

\* The gevent hub resumes the flusher when its sleep is over, and a storage
\* call it waits for returns.
SpecFairFlusher ==
    /\ Spec
    /\ WF_vars(run_iteration)
    /\ WF_vars(\E ok \in BOOLEAN : write_return(ok))

\* The request tasks go on after the requests that are numbered: once the
\* last request the bounds allow was drained, the numbering of the requests
\* and the records of what was handed to the write and stored start over.
\* Nothing the reporter reads changes.
requests_go_on ==
    /\ handlers
    /\ ~exited
    /\ TotalSent > 0
    /\ TotalSent = MaxSamples \/ Delivered = MaxNotifications
    /\ samples = <<>>
    /\ samples_buffer = <<>>
    /\ sent' = [g \in Greenlets |-> 0]
    /\ written' = <<>>
    /\ stored' = <<>>
    /\ UNCHANGED <<argv, env_run_id, main, conn, cur, samples, finished,
                   background, samples_buffer, run_id, handlers, atexit_hook,
                   executed, logged, reports, pc, end_time, exited>>

NextUnbounded == Next \/ requests_go_on

\* a standalone run or a participant, with LOCUST_RUN_ID set
InitOneProcess ==
    /\ Init
    /\ argv \in {{}, {"--slave"}}
    /\ env_run_id = "3"

\* Runs with any number of requests, under a hub that resumes the flusher
\* and the quitting handler when they can run, and a storage whose calls
\* return.
SpecFairShutdown ==
    /\ InitOneProcess
    /\ [][NextUnbounded]_vars
    /\ WF_vars(run_iteration)
    /\ WF_vars(\E ok \in BOOLEAN : write_return(ok))
    /\ WF_vars(\E q \in Quitters : join_return(q))
    /\ WF_vars(\E c \in Callers, ok \in BOOLEAN : stop_update_return(c, ok))
    /\ WF_vars(\E c \in Callers, ok \in BOOLEAN : stop_event_return(c, ok))


\* ------------------------------------------------------------- properties
\* the samples handed to write_samples_to_db so far, in the order handed
Handed == Concat(written)

\* the samples of greenlet g in a sequence of samples, as request numbers
NamesOf(seq, g) ==
    LET own == SelectSeq(seq, LAMBDA s : s.greenlet_id = greenlet_id(g))
    IN  [i \in 1..Len(own) |-> own[i].name]

\* an invocation of exit has run to its end
ExitCompleted == conn = "closed" /\ \E c \in Callers : pc[c] = "done"

\* C1: whatever the interleaving of appends and drains, the batches handed to
\* write_samples_to_db followed by the buffer hold, for each greenlet, exactly
\* its requests 1..sent in its own order (none twice, none lost, none
\* invented), and a drain takes the whole buffer: what was appended before it
\* is in it or in an earlier batch.
C1_DrainedExactlyOnceInOrder ==
    /\ [](\A g \in Greenlets :
            NamesOf(Handed \o samples, g) = [i \in 1..sent[g] |-> i])
    /\ [][Len(written') > Len(written) =>
            /\ samples' = <<>>
            /\ written' = Append(written, samples)]_vars

\* C1 witness: greenlet 1 appended twice, the second time after a drain, and
\* both samples have been handed over in two batches
C1_Witness == Len(written) = 2 /\ sent[1] = 2

\* C2: once exit has completed, the buffer is empty and every sample ever
\* appended has been handed to write_samples_to_db.
C2_ShutdownLosesNothing ==
    ExitCompleted => samples = <<>> /\ Len(Handed) = TotalSent

\* C3: a quitting handler is past the join, in the exit sequence, only with
\* the flag set and the flusher dead, and the flusher dies only in a pass of
\* its loop made with the flag set that found the buffer empty: that pass
\* lies between the notification that set the flag and the exit sequence.
C3_DrainAttemptBeforeExit ==
    /\ [](\A q \in Quitters :
            /\ pc[q] = "join" => finished
            /\ pc[q] \notin {"idle", "join"} => finished /\ background = "dead")
    /\ [][background # "dead" /\ background' = "dead" =>
            /\ background \in {"start", "sleep"}
            /\ finished
            /\ samples = <<>>]_vars

\* C3 witness: quitting went through the join and exit although the flusher
\* never had a sample to write
C3_Witness ==
    /\ pc[1] = "done"
    /\ background = "dead"
    /\ written = <<>>
    /\ TotalSent = 0

\* C4: the connection is closed only after the flusher has terminated.
C4_TeardownAfterFlusher == conn = "closed" => background = "dead"


\* invocation c enters the exit sequence in this step
ExitEntered(c) == pc[c] \in {"idle", "join"} /\ pc'[c] \notin {"idle", "join"}

\* C5: an exit called after an exit has completed issues no run-end
\* statement, logs nothing, raises nothing and leaves the state as it was.
C5_SecondExitIsNoOp ==
    [][\A c \in Callers : ExitCompleted /\ ExitEntered(c) =>
            /\ executed' = executed
            /\ logged' = logged
            /\ reports' = reports
            /\ pc'[c] = "done"
            /\ <<conn, cur>>' = <<conn, cur>>]_vars

\* C6: a participant issues no run-start and no run-end write; a coordinator
\* issues its run-start write once, never more than one run-end write, and
\* exactly one once an exit has completed.
C6_RunWritesByRole ==
    /\ is_slave => executed["start_insert"] = 0 /\ executed["stop_update"] = 0
    /\ ~is_slave /\ main \in {"start_insert", "start_event", "constructed"} =>
            /\ executed["start_insert"] = 1
            /\ executed["stop_update"] <= 1
    /\ ~is_slave /\ ExitCompleted => executed["stop_update"] = 1

\* the run id has been chosen (line 76 passed) and the constructor has not raised
RunIdChosen == main \in {"start_insert", "start_event", "constructed"}

\* C7 as stated: a participant takes run_id from LOCUST_RUN_ID, a coordinator
\* (standalone or --master) takes it from the wall clock.
C7_RunIdByRole ==
    RunIdChosen =>
        IF is_slave THEN run_id = parse(env_run_id) ELSE run_id \in Clock

\* C7 amended: with --slave or --master in argv run_id is LOCUST_RUN_ID
\* parsed; only a standalone run takes it from the wall clock.
C7_RunIdBySwarm ==
    RunIdChosen =>
        IF is_slave \/ is_master
        THEN env_run_id # "unset" /\ run_id = parse(env_run_id)
        ELSE run_id \in Clock

\* C7 witness: a constructed --master reporter holding the parsed LOCUST_RUN_ID
C7_Witness ==
    /\ main = "constructed"
    /\ argv = {"--master"}
    /\ run_id = parse(env_run_id)
    /\ run_id \notin Clock

\* every sample built so far: handed to a write or still in the buffer
AllSamples == Handed \o samples

\* C8 as stated: in every sample, response_length is null exactly when
\* success is false and exception is null exactly when success is true.
C8_NullExactlyBySuccess ==
    \A i \in DOMAIN AllSamples :
        LET s == AllSamples[i]
        IN  /\ s.response_length = None <=> s.success = 0
            /\ s.exception = None <=> s.success = 1

\* the sample a notification has just appended
Appended == samples'[Len(samples')]

\* C8 amended: in every sample a failure has a null response_length and a
\* success a null exception; a success notification with a length >= 0 keeps
\* it, a failure notification with a truthy exception E stores repr(E); a
\* negative length or a falsy exception is stored as null.
C8_NullBySuccessGivenArguments ==
    /\ [](\A i \in DOMAIN AllSamples :
            LET s == AllSamples[i]
            IN  /\ s.success = 0 => s.response_length = None
                /\ s.success = 1 => s.exception = None)
    /\ [][\A g \in Greenlets :
            /\ \A n \in AnyResponseLengths : request_success(g, n) =>
                    /\ Appended.success = 1
                    /\ n >= 0 => Appended.response_length = Some(n)
                    /\ n < 0 => Appended.response_length = None
            /\ \A e \in AnyExceptionArgs : request_failure(g, e) =>
                    /\ Appended.success = 0
                    /\ truthy(e) => Appended.exception = Some(repr(e))
                    /\ ~truthy(e) => Appended.exception = None]_vars

\* C8 witness: the sample of a failure notification with exception 'Timeout'
C8_Witness ==
    \E i \in DOMAIN samples :
        /\ samples[i].success = 0
        /\ samples[i].response_length = None
        /\ samples[i].exception = Some("'Timeout'")

\* executemany raised in this step: at once on a closed cursor, or on return
WriteFailed ==
    \/ Len(written') > Len(written) /\ background' # "write"
    \/ background = "write" /\ background' # "write" /\ stored' = stored

\* the batch whose write fails in a step with WriteFailed
FailedBatch == IF background = "write" THEN samples_buffer ELSE samples

\* C9: a failed batch write is logged and not raised (the flusher goes on to
\* its sleep), the batch is neither stored nor put back into the buffer nor
\* handed over again, and a buffer filled while the flusher runs is drained
\* and handed to a write as long as the process lives.
C9_WriteFailureDropsBatch ==
    /\ [][WriteFailed =>
            /\ background' = "sleep"
            /\ "write" \in logged'
            /\ stored' = stored
            /\ \A i \in DOMAIN samples', j \in DOMAIN FailedBatch :
                    samples'[i] # FailedBatch[j]]_vars
    /\ [](\A i, j \in DOMAIN AllSamples :
            AllSamples[i] = AllSamples[j] => i = j)
    /\ ("write" \in logged /\ samples # <<>> /\ background # "dead" /\ ~exited)
            ~> (samples = <<>> \/ exited)

\* C9 witness: a first batch failed and was dropped, a later batch was stored
C9_Witness ==
    /\ "write" \in logged
    /\ Len(written) = 2
    /\ stored = written[2]

\* the UPDATE of invocation c raised in this step
UpdateRaised(c) ==
    /\ pc[c] = "stop_update"
    /\ pc'[c] # "stop_update"
    /\ executed'["stop_event"] = executed["stop_event"]

\* C10: when a run-end statement raises, the error is logged, the URL is
\* logged and exit closes the cursor and the connection and returns.
C10_RunEndFailureDoesNotStopExit ==
    [][\A c \in Callers :
        /\ UpdateRaised(c) =>
                /\ "stop" \in logged'
                /\ reports' # {}
                /\ pc'[c] = "done"
                /\ cur' = "closed" /\ conn' = "closed"
        /\ pc[c] = "stop_event" /\ pc'[c] # "stop_event" =>
                /\ pc'[c] = "done"
                /\ cur' = "closed" /\ conn' = "closed"]_vars

\* C10 witness: the UPDATE failed (no event insert followed), the error was
\* logged and exit has closed the connection and returned
C10_Witness ==
    /\ \E c \in Callers : pc[c] = "done"
    /\ "stop" \in logged
    /\ executed["stop_update"] = 1
    /\ executed["stop_event"] = 0
    /\ conn = "closed"


\* C11: when psycopg2.connect fails the constructor raises and leaves
\* nothing behind: no connection, no flusher greenlet, no handler, no exit
\* hook, no run-start statement.
C11_ConnectFailureLeavesNothing ==
    "connect" \in logged =>
        /\ main = "raised"
        /\ conn = "none" /\ cur = "none"
        /\ background = "none"
        /\ ~handlers
        /\ ~atexit_hook
        /\ \A st \in DOMAIN executed : executed[st] = 0
        /\ \A c \in Callers : pc[c] = "idle"

\* C11 witness: the connection failed and the constructor raised
C11_Witness == "connect" \in logged /\ main = "raised"

\* C12 as stated: a run-start statement that fails does not make the
\* constructor raise: once the run-start write has been issued the
\* constructor goes on to register its handlers and its exit hook.
C12_RunStartFailureIsSwallowed ==
    executed["start_insert"] > 0 => main # "raised"

\* the INSERT INTO testrun raised in this step
StartInsertRaised ==
    /\ main = "start_insert"
    /\ main' # "start_insert"
    /\ executed' = executed

\* C12 amended: a failure of the run-start write is not caught and not
\* logged by the reporter; it leaves the constructor as an exception, so no
\* handler and no exit hook is registered, while the flusher spawned on line
\* 70 and the open connection stay.
C12_RunStartFailureRaises ==
    /\ [][StartInsertRaised =>
            /\ main' = "raised"
            /\ logged' = logged
            /\ ~handlers' /\ ~atexit_hook']_vars
    /\ [](main = "raised" =>
            /\ ~handlers /\ ~atexit_hook
            /\ "start" \notin logged
            /\ executed["start_insert"] > 0 =>
                    conn = "open" /\ background \in {"start", "sleep"})

\* C12 witness: the run-start insert failed: the constructor raised with the
\* flusher spawned and nothing registered
C12_Witness ==
    /\ main = "raised"
    /\ executed["start_insert"] = 1
    /\ executed["start_event"] = 0
    /\ background = "sleep"
    /\ ~handlers /\ ~atexit_hook

\* some quitting notification has been received
QuittingReceived == \E q \in Quitters : pc[q] # "idle"

\* C13: quitting clears the exit hook before it joins the flusher: from the
\* first quitting notification on no exit hook is registered, so the
\* interpreter's exit, whatever signal brings it about, starts no further
\* exit sequence.
C13_HookClearedByQuitting ==
    /\ [](QuittingReceived => ~atexit_hook)
    /\ [][ExitEntered(AtExitHook) => ~QuittingReceived /\ ~finished]_vars
    /\ [][QuittingReceived /\ pc[AtExitHook] = "idle" => pc'[AtExitHook] = "idle"]_vars

\* C13 witness: a quitting handler waits in its join with the hook cleared
\* and never run
C13_Witness ==
    /\ pc[1] = "join"
    /\ pc[AtExitHook] = "idle"
    /\ ~atexit_hook
    /\ ~exited

\* the run-end statements of caller c are over and exit goes on to the URL
StopReturned(c) ==
    /\ pc[c] \in {"stop_update", "stop_event"}
    /\ pc'[c] = "done"

\* C14 as stated: the URL a coordinator logs carries the testplan, from = its
\* run_id in milliseconds and to = the run end in milliseconds plus 1000 (the
\* fraction of a millisecond dropped); a participant logs no URL.
C14_ReportUrlWindow ==
    /\ [](is_slave => reports = {})
    /\ [](\A r \in reports :
            /\ r.testplan = Testplan
            /\ 2 * r.from <= run_id /\ run_id < 2 * r.from + 2
            /\ \E t \in Clock :
                    /\ 2 * (r.to - 1000) <= t
                    /\ t < 2 * (r.to - 1000) + 2)
    /\ [][\A c \in Callers : StopReturned(c) =>
            \E r \in reports' :
                /\ 2 * (r.to - 1000) <= end_time[c]
                /\ end_time[c] < 2 * (r.to - 1000) + 2]_vars

\* the flusher leaves its loop in this step
FlusherExits == background # "dead" /\ background' = "dead"

\* C15: the flusher leaves its loop only on a pass that finds the buffer
\* empty and the finished flag set: never with finished unset, never on a
\* pass that drained something, and the buffer is empty when it exits.
C15_FlusherExitCondition ==
    /\ [][FlusherExits =>
            /\ finished
            /\ background \in {"start", "sleep"}
            /\ samples = <<>>
            /\ samples' = <<>>
            /\ written' = written
            /\ samples_buffer = <<>> /\ samples_buffer' = <<>>]_vars
    /\ [](~finished => background # "dead")

\* C15 witness: the flusher has exited after it had written a batch
C15_Witness ==
    /\ background = "dead"
    /\ finished
    /\ stored # <<>>

\* a request handler appends in this step
Appends == Len(samples') = Len(samples) + 1

\* a pass of the flusher drains the buffer in this step
Drains == Len(written') = Len(written) + 1

\* the samples of a list, as a set
SamplesOf(list) == {list[i] : i \in DOMAIN list}

\* C16: the drain is one step: the whole buffer becomes the batch and the
\* buffer becomes a new empty list in the same step; a sample appended
\* while the flusher is suspended in the write of a batch goes to the new
\* list and not to the batch in flight, and a later drain returns it if the
\* flusher gets to run before the process is gone.
C16_DrainIsAtomic ==
    /\ [][Drains =>
            /\ written' = Append(written, samples)
            /\ samples' = <<>>]_vars
    /\ [][Appends /\ background = "write" =>
            /\ samples_buffer' = samples_buffer
            /\ written' = written
            /\ samples'[Len(samples')] \notin SamplesOf(samples_buffer)
            /\ SubSeq(samples', 1, Len(samples)) = samples]_vars
    /\ [](background = "write" =>
            /\ samples_buffer = written[Len(written)]
            /\ SamplesOf(samples) \cap SamplesOf(samples_buffer) = {})
    /\ \A n \in 1..MaxSamples :
            (background = "write" /\ samples # <<>> /\ TotalSent = n)
                ~> (Len(Handed) >= n \/ exited)

\* C16 witness: a sample was appended while a batch is in flight
C16_Witness ==
    /\ background = "write"
    /\ samples_buffer # <<>>
    /\ samples # <<>>

\* the tasks suspended inside a call of the shared cursor
InStorageCall ==
    (IF background = "write" THEN {"flusher"} ELSE {})
    \cup (IF main \in {"start_insert", "start_event"} THEN {"constructor"} ELSE {})
    \cup {c \in Callers : pc[c] \in {"stop_update", "stop_event"}}

\* C17: the storage handle is used by one task at a time: no two tasks are
\* suspended inside a storage call together, and the flusher is not
\* suspended in a batch write once exit has closed the connection.
C17_StorageUsedSequentially ==
    /\ Cardinality(InStorageCall) <= 1
    /\ ~(background = "write" /\ conn = "closed")

\* a request handler runs in this step
RequestHandled == sent' # sent

\* C18: a request_success or request_failure notification appends exactly one
\* sample to the buffer and changes nothing else of the reporter: the samples
\* already buffered, finished, run_id, the connection, the flusher and what
\* was sent to storage stay as they were.
C18_NotificationOnlyAppends ==
    [][RequestHandled =>
            /\ Len(samples') = Len(samples) + 1
            /\ SubSeq(samples', 1, Len(samples)) = samples
            /\ samples'[Len(samples')].run_id = run_id
            /\ TotalSent' = TotalSent + 1
            /\ UNCHANGED <<finished, run_id, conn, cur, background,
                           samples_buffer, handlers, atexit_hook, main, pc,
                           written, stored, executed, logged, reports,
                           end_time, exited>>]_vars

\* C18 witness: both greenlets have appended to the buffer of a reporter
\* whose finished flag is set
C18_Witness ==
    /\ Len(samples) = 2
    /\ sent[0] = 1 /\ sent[1] = 1
    /\ finished

\* C20: every list the flusher hands to write_samples_to_db is non-empty,
\* and at most one batch is in flight: a drain happens only when no write is
\* pending, and the batch in flight is the last one drained.
C20_NonEmptySingleBatch ==
    /\ [](\A i \in DOMAIN written : written[i] # <<>>)
    /\ [](background = "write" <=> samples_buffer # <<>>)
    /\ [][Drains =>
            /\ background \in {"start", "sleep"}
            /\ samples_buffer = <<>>
            /\ samples # <<>>
            /\ Len(written') = Len(written) + 1]_vars
    /\ [][background = "write" /\ background' = "write" =>
            samples_buffer' = samples_buffer /\ written' = written]_vars

\* C20 witness: a second batch is in flight after the first write returned
C20_Witness ==
    /\ Len(written) = 2
    /\ background = "write"
    /\ samples_buffer = written[2]
    /\ Len(stored) = 1

\* the reporter has terminated: the flusher has exited, the join has returned
\* and exit has closed the connection
Terminated ==
    /\ background = "dead"
    /\ conn = "closed"
    /\ \E q \in Quitters : pc[q] = "done"

\* C19 as stated: after a quitting notification the reporter terminates,
\* however the request tasks go on appending (unless the interpreter's own
\* exit ends the process first).
C19_ShutdownTerminates ==
    QuittingReceived ~> (Terminated \/ exited)

\* C19 amended: after a quitting notification the reporter terminates in
\* every run in which the request tasks stop appending at some point.
C19_ShutdownTerminatesOnceAppendsStop ==
    (<>[][~Appends]_vars) => (QuittingReceived ~> (Terminated \/ exited))

\* C19 witness: the reporter has terminated by its quitting handler after
\* the flusher had written two batches
C19_Witness ==
    /\ Terminated
    /\ ~exited
    /\ pc[AtExitHook] = "idle"
    /\ Len(written) = 2

====
